---- MODULE Spec2Model ----
(***************************************************************************)
(* Session state synchronisation of the collaborative 3D scene server.     *)
(*                                                                         *)
(* Two generations of the server live in the repository and both are       *)
(* modelled; `impl' says which one is running:                             *)
(*   "mongo"   server.js + SOCKET.IO : scene state in a MongoDB collection,*)
(*             every handler is async (await store op, then emit);         *)
(*   "memory"  unnamed/part_000      : scene state in the projectStates    *)
(*             object, every handler is synchronous.                       *)
(* Numbers of the scene (coordinates) are kept in tenths: 5 is 0.5.        *)
(***************************************************************************)
EXTENDS Integers, Sequences, FiniteSets, TLC

VARIABLES
    impl,           \* which server program runs
    conn,           \* socket id -> "new" | "open" | "closed"
    rooms,          \* socket.io adapter: room key -> set of socket ids
    store,          \* projectsCollection: ObjectId -> document | NoDoc
    issued,         \* ObjectIds the store has generated so far
    handlers,       \* async handlers suspended at their await, arrival order; the
                    \* field seen is history: how many writes to the project the
                    \* store had applied when it served the handler's operation
    nEvents,        \* number of socket events and HTTP requests received so far
    projects,       \* part_000: the in-memory project list
    projectStates,  \* part_000: room key -> state object | NoState
    commitLog,      \* history: per project, the writes the store applied, in order
    last,           \* history: the step just taken and the handler that took it
    wire            \* the messages the step just taken put on the wire

vars == <<impl, conn, rooms, store, issued, handlers, nEvents, projects,
          projectStates, commitLog, last, wire>>

----------------------------------------------------------------------------
(* Bounds *)

MaxEvents == 2          \* socket events and HTTP requests received in one run

(* Input domains *)

Conns == {"s1", "s2"}
ProjIds == {"p1", "p2"}             \* well-formed ObjectId strings
BadId == "zz"                       \* a string new ObjectId() rejects
Ids == ProjIds \cup {BadId}         \* what a client may send as projectId

Vec(x, y, z) == [x |-> x, y |-> y, z |-> z]
Transforms ==
    {[position |-> Vec(10, 0, 0), rotation |-> Vec(0, 0, 0), scale |-> Vec(10, 10, 10)],
     [position |-> Vec(20, 0, 0), rotation |-> Vec(0, 15, 0), scale |-> Vec(20, 20, 20)]}
Colors == {"#ff0000"}
Cameras == {"cam1"}
Annotations == {[id |-> "a1", text |-> "x"], [id |-> "a2", text |-> "y"]}
AnnotationIds == {"a1", "a2"}
Messages == {[user |-> "u", text |-> "hi"],
             [text |-> "hi"]}       \* a message without its author
FileUrls == {"/uploads/m1.stl"}
Title == "t"

----------------------------------------------------------------------------
(* Values *)

NoDoc == [missing |-> TRUE]
NoState == [undefined |-> TRUE]
NoHandler == [none |-> TRUE]
Null == "null"

\* server.js:38-42, the object of a new project
DefaultObject ==
    [position |-> Vec(0, 5, 0), rotation |-> Vec(0, 0, 0), scale |-> Vec(10, 10, 10)]

\* server.js:35-48
NewProject ==
    [title |-> Title,
     state |-> [object |-> DefaultObject, annotations |-> <<>>, chat |-> <<>>,
                camera |-> Null]]

\* SOCKET.IO:78-83, the object a model swap writes
ModelObject ==
    [position |-> Vec(0, 0, 0), rotation |-> Vec(0, 0, 0), scale |-> Vec(10, 10, 10),
     color |-> "#00aaff"]

\* obj[k] = v on a JS object: adds the key when it is missing
SetField(r, k, v) == [x \in (DOMAIN r) \cup {k} |-> IF x = k THEN v ELSE r[x]]

Has(r, k) == k \in DOMAIN r

RECURSIVE Filter(_, _)
\* Array.prototype.filter((a) => a.id !== annotationId) and $pull {id: annotationId}
Filter(s, aid) ==
    IF s = <<>> THEN <<>>
    ELSE IF Head(s).id # aid THEN <<Head(s)>> \o Filter(Tail(s), aid)
         ELSE Filter(Tail(s), aid)

Remove(s, i) == [j \in 1..(Len(s) - 1) |-> IF j < i THEN s[j] ELSE s[j + 1]]

----------------------------------------------------------------------------
(* The transport: socket.io rooms and the three ways the handlers emit *)

\* Mutant: a second join of the same room leaves it
JoinToggle(rm, c, key) ==
    [rm EXCEPT ![key] = IF c \in @ THEN @ \ {c} ELSE @ \cup {c}]

\* Mutant: joining a room leaves every other room
JoinExclusive(rm, c, key) ==
    [k \in DOMAIN rm |-> IF k = key THEN rm[k] \cup {c} ELSE rm[k] \ {c}]

\* Mutant: the handler reads the project without joining the room
JoinSkipped(rm, c, key) == rm

\* socket.join(projectId): idempotent add to the room
Join(rm, c, key) == [rm EXCEPT ![key] = @ \cup {c}]

\* the transport drops a closed socket from every room
Leave(rm, c) == [k \in DOMAIN rm |-> rm[k] \ {c}]

\* socket.to(room).emit: the room without the emitting socket
SocketTo(c, key) == rooms[key] \ {c}

\* io.to(room).emit: the whole room
IoTo(c, key) == rooms[key]

\* socket.emit: the socket alone; a packet for a closed socket is dropped
SocketEmit(c) == IF conn[c] = "open" THEN {c} ELSE {}

Msg(event, payload, to, h) ==
    [event |-> event, payload |-> payload, to |-> to, from |-> h.socket,
     room |-> h.projectId, members |-> rooms[h.projectId], id |-> h.id,
     result |-> h.result]

----------------------------------------------------------------------------
(* server.js + SOCKET.IO: the store *)

Pending == [pending |-> TRUE]
Matched(n) == [matchedCount |-> n]

MutationKinds ==
    {"updateObject", "updateCamera", "updateCubeColor", "addAnnotation",
     "deleteAnnotation", "sendMessage", "modelUploaded"}

\* Mutant: only the position is written
WriteObjectPositionOnly(st, data) ==
    SetField(st, "object", SetField(st.object, "position", data.position))

\* Mutant: a write is dropped once another client has moved the object
WriteObjectFirstWins(st, data) ==
    IF st.object.position = DefaultObject.position THEN SetField(st, "object", data) ELSE st

\* $set "state.object": { position, rotation, scale } replaces the whole subdocument
WriteObject(st, data) == SetField(st, "object", data)

\* $set "state.camera": camera
WriteCamera(st, data) == SetField(st, "camera", data.camera)

\* $set "state.object.color": color sets one key of the subdocument
WriteColor(st, data) == SetField(st, "object", SetField(st.object, "color", data.color))

\* Mutant: read-modify-write that keeps the new element only
AppendAnnotationOverwrite(st, data) == SetField(st, "annotations", <<data.annotation>>)

\* $push "state.annotations": annotation
AppendAnnotation(st, data) ==
    SetField(st, "annotations", Append(st.annotations, data.annotation))

\* Mutant: removes the first element whatever its id
RemoveAnnotationFirst(st, data) ==
    SetField(st, "annotations",
             IF st.annotations = <<>> THEN <<>> ELSE Tail(st.annotations))

\* $pull "state.annotations": { id: annotationId } removes every match
RemoveAnnotation(st, data) ==
    SetField(st, "annotations", Filter(st.annotations, data.annotationId))

\* $push "state.chat": message
AppendChat(st, data) == SetField(st, "chat", Append(st.chat, data.message))

\* $set of state.model, state.object and state.annotations in one update.
\* The handler never reaches this updateOne (see ModelUploaded).
ApplyModelSwap(st, data) ==
    SetField(SetField(SetField(st, "model", data.fileUrl), "object", ModelObject),
             "annotations", <<>>)

\* The update document of each handler's updateOne, applied to a matched document
ApplyUpdate(doc, kind, data) ==
    LET st == doc.state IN
    [doc EXCEPT !.state =
        CASE kind = "updateObject" -> WriteObject(st, data)
          [] kind = "updateCamera" -> WriteCamera(st, data)
          [] kind = "updateCubeColor" -> WriteColor(st, data)
          [] kind = "addAnnotation" -> AppendAnnotation(st, data)
          [] kind = "deleteAnnotation" -> RemoveAnnotation(st, data)
          [] kind = "sendMessage" -> AppendChat(st, data)
          [] kind = "modelUploaded" -> ApplyModelSwap(st, data)]

\* The event a mutation handler emits once its await has resolved
EventOf(kind) ==
    CASE kind = "updateObject" -> "objectUpdated"
      [] kind = "updateCamera" -> "cameraUpdated"
      [] kind = "updateCubeColor" -> "cubeColorUpdated"
      [] kind = "addAnnotation" -> "annotationAdded"
      [] kind = "deleteAnnotation" -> "annotationDeleted"
      [] kind = "sendMessage" -> "receiveMessage"
      [] kind = "modelUploaded" -> "modelLoaded"

\* Mutant: every handler emits with io.to(projectId)
RecipientsIoEverywhere(kind, c, key) == IoTo(c, key)

\* Mutant: every handler emits with socket.to(projectId)
RecipientsSocketEverywhere(kind, c, key) == SocketTo(c, key)

\* Mutant: a handler whose socket has closed emits to nobody
RecipientsIfConnected(kind, c, key) ==
    IF conn[c] # "open" THEN {}
    ELSE IF kind \in {"updateObject", "updateCamera"} THEN SocketTo(c, key) ELSE IoTo(c, key)

\* Who the handler of `kind' emits to: socket.to(projectId) or io.to(projectId)
Recipients(kind, c, key) ==
    IF kind \in {"updateObject", "updateCamera"} THEN SocketTo(c, key) ELSE IoTo(c, key)

\* { projectId, ...fields } as the handler rebuilds it for the emit
Payload(h) == SetField(h.data, "projectId", h.projectId)

Handler(kind, c, key, data) ==
    [id |-> nEvents + 1, kind |-> kind, socket |-> c, projectId |-> key, data |-> data,
     pc |-> "store", result |-> Pending, seen |-> 0]

Step(name, h) == [step |-> name, h |-> h]

\* `new ObjectId(projectId)' throws on a malformed id string
ObjectIdThrows(key) == key \notin ProjIds

----------------------------------------------------------------------------
(* Initial states. Either the server has just started (empty collection, *)
(* empty rooms), or a session is in progress: project p1 has been created, *)
(* both clients have joined it and those handlers have run to their end.   *)
(* Clients are connected: io.on("connection") only registers the handlers. *)

Session == "p1"

\* part_000: projectStates[Session] once a client has joined it
MemSessionState ==
    [position |-> Vec(0, 5, 0), rotation |-> Vec(0, 0, 0), scale |-> Vec(10, 10, 10),
     annotations |-> <<>>]

\* who has joined the session so far: both clients, or the first one only
SessionMembers == {Conns, {"s1"}}

Init ==
    /\ impl \in {"mongo", "memory"}
    /\ conn = [c \in Conns |-> "open"]
    /\ handlers = <<>>
    /\ nEvents = 0
    /\ projects = <<[id |-> 1, title |-> "Test Project"]>>
    /\ commitLog = [p \in ProjIds |-> <<>>]
    /\ last = Step("init", NoHandler)
    /\ wire = <<>>
    /\ \/ /\ rooms = [k \in Ids |-> {}]
          /\ store = [p \in ProjIds |-> NoDoc]
          /\ issued = {}
          /\ projectStates = [k \in Ids |-> NoState]
       \/ /\ \E members \in SessionMembers :
                 rooms = [k \in Ids |-> IF k = Session THEN members ELSE {}]
          /\ store = [p \in ProjIds |-> IF impl = "mongo" /\ p = Session THEN NewProject ELSE NoDoc]
          /\ issued = IF impl = "mongo" THEN {Session} ELSE {}
          /\ projectStates = [k \in Ids |-> IF impl = "memory" /\ k = Session
                                            THEN MemSessionState ELSE NoState]

Mongo == impl = "mongo"
Memory == impl = "memory"

\* the server process has not exited
Alive == last.step # "crash"

----------------------------------------------------------------------------
(* The transport's own steps *)

\* socket.on("disconnect"): the handler only logs; the transport empties the rooms
Disconnect(c) ==
    /\ Alive /\ conn[c] = "open" /\ nEvents < MaxEvents
    /\ conn' = [conn EXCEPT ![c] = "closed"]
    /\ rooms' = Leave(rooms, c)
    /\ nEvents' = nEvents + 1
    /\ last' = Step("disconnect", NoHandler)
    /\ wire' = <<>>
    /\ UNCHANGED <<impl, store, issued, handlers, projects, projectStates, commitLog>>

----------------------------------------------------------------------------
(* server.js: the REST routes that create and delete project documents *)

\* app.post("/projects"): insertOne gives the document a fresh ObjectId
CreateProject(p) ==
    /\ Mongo /\ Alive /\ nEvents < MaxEvents
    /\ p \notin issued
    /\ issued' = issued \cup {p}
    /\ store' = [store EXCEPT ![p] = NewProject]
    /\ nEvents' = nEvents + 1
    /\ last' = Step("createProject", NoHandler)
    /\ wire' = <<>>
    /\ UNCHANGED <<impl, conn, rooms, handlers, projects, projectStates, commitLog>>

\* app.delete("/projects/:id"): deleteOne; 404 when nothing matched, 500 on a bad id
DeleteProject(key) ==
    /\ Mongo /\ Alive /\ nEvents < MaxEvents
    /\ key \in Ids
    /\ store' = IF ObjectIdThrows(key) THEN store ELSE [store EXCEPT ![key] = NoDoc]
    /\ nEvents' = nEvents + 1
    /\ last' = Step("deleteProject", NoHandler)
    /\ wire' = <<>>
    /\ UNCHANGED <<impl, conn, rooms, issued, handlers, projects, projectStates,
                   commitLog>>

----------------------------------------------------------------------------
(* SOCKET.IO: the event handlers up to their await *)

CanReceive(c) == Alive /\ conn[c] = "open" /\ nEvents < MaxEvents

\* The synchronous part of an async handler whose first statement awaits a
\* store operation on { _id: new ObjectId(projectId) }
Begin(kind, c, key, data) ==
    LET h == Handler(kind, c, key, data) IN
    /\ nEvents' = nEvents + 1
    /\ wire' = <<>>
    /\ IF ObjectIdThrows(key)
       THEN /\ handlers' = handlers
            /\ last' = Step("throw", [h EXCEPT !.pc = "rejected"])
       ELSE /\ handlers' = Append(handlers, h)
            /\ last' = Step("begin", h)
    /\ UNCHANGED <<impl, conn, store, issued, projects, projectStates, commitLog>>

JoinProject(c, key) ==
    /\ Mongo /\ CanReceive(c)
    /\ rooms' = Join(rooms, c, key)
    /\ Begin("joinProject", c, key, [projectId |-> key])

UpdateObject(c, key, t) ==
    /\ Mongo /\ CanReceive(c)
    /\ Begin("updateObject", c, key, t)
    /\ UNCHANGED rooms

UpdateCamera(c, key, cam) ==
    /\ Mongo /\ CanReceive(c)
    /\ Begin("updateCamera", c, key, [camera |-> cam, socketId |-> c])
    /\ UNCHANGED rooms

UpdateCubeColor(c, key, col) ==
    /\ Mongo /\ CanReceive(c)
    /\ Begin("updateCubeColor", c, key, [color |-> col])
    /\ UNCHANGED rooms

AddAnnotation(c, key, a) ==
    /\ Mongo /\ CanReceive(c)
    /\ Begin("addAnnotation", c, key, [annotation |-> a])
    /\ UNCHANGED rooms

DeleteAnnotation(c, key, aid) ==
    /\ Mongo /\ CanReceive(c)
    /\ Begin("deleteAnnotation", c, key, [annotationId |-> aid])
    /\ UNCHANGED rooms

SendMessage(c, key, m) ==
    /\ Mongo /\ CanReceive(c)
    /\ Begin("sendMessage", c, key, [message |-> m])
    /\ UNCHANGED rooms

\* The filter is { _id: new createFromTime(projectId) }: createFromTime is bound
\* nowhere in the module, so evaluating it throws a ReferenceError before
\* updateOne is called; the handler's promise rejects, nothing is written or sent
ModelUploaded(c, key, url) ==
    /\ Mongo /\ CanReceive(c)
    /\ nEvents' = nEvents + 1
    /\ last' = Step("throw", [Handler("modelUploaded", c, key, [fileUrl |-> url])
                                EXCEPT !.pc = "rejected"])
    /\ wire' = <<>>
    /\ UNCHANGED <<impl, conn, rooms, store, issued, handlers, projects, projectStates,
                   commitLog>>

----------------------------------------------------------------------------
(* SOCKET.IO: the store operation of a suspended handler, and its resumption *)

\* findOne / updateOne reaches the collection and is applied atomically.
\* updateOne on an id that matches no document resolves with matchedCount 0.
StoreApply(i) ==
    /\ Mongo /\ Alive
    /\ i \in 1..Len(handlers)
    /\ handlers[i].pc = "store"
    /\ LET h == handlers[i]
           p == h.projectId
           found == store[p] # NoDoc
           res == IF h.kind = "joinProject" THEN store[p]
                  ELSE Matched(IF found THEN 1 ELSE 0)
           h2 == [h EXCEPT !.pc = "resume", !.result = res, !.seen = Len(commitLog[p])]
       IN /\ handlers' = [handlers EXCEPT ![i] = h2]
          /\ IF h.kind # "joinProject" /\ found
             THEN /\ store' = [store EXCEPT ![p] = ApplyUpdate(store[p], h.kind, h.data)]
                  /\ commitLog' = [commitLog EXCEPT ![p] = Append(@, h)]
             ELSE UNCHANGED <<store, commitLog>>
          /\ last' = Step("storeApply", h2)
    /\ wire' = <<>>
    /\ UNCHANGED <<impl, conn, rooms, issued, nEvents, projects, projectStates>>

\* The store is unreachable or the operation times out: the awaited promise
\* rejects, the handler throws at its await and never reaches its emit
StoreFail(i) ==
    /\ Mongo /\ Alive
    /\ i \in 1..Len(handlers)
    /\ handlers[i].pc = "store"
    /\ handlers' = Remove(handlers, i)
    /\ last' = Step("storeFail", [handlers[i] EXCEPT !.pc = "rejected"])
    /\ wire' = <<>>
    /\ UNCHANGED <<impl, conn, rooms, store, issued, nEvents, projects, projectStates,
                   commitLog>>

\* Mutant: joinProject answers without the `if (project)' test
EmitsUnchecked(h) ==
    IF h.kind = "joinProject"
    THEN <<Msg("loadProject", IF h.result # NoDoc THEN h.result.state ELSE NoDoc,
               SocketEmit(h.socket), h)>>
    ELSE <<Msg(EventOf(h.kind), Payload(h), Recipients(h.kind, h.socket, h.projectId), h)>>

\* What the handler emits after its await
Emits(h) ==
    IF h.kind = "joinProject"
    THEN IF h.result # NoDoc
         THEN <<Msg("loadProject", h.result.state, SocketEmit(h.socket), h)>>
         ELSE <<>>
    ELSE <<Msg(EventOf(h.kind), Payload(h), Recipients(h.kind, h.socket, h.projectId), h)>>

\* The awaited promise has resolved: the handler runs to its end
Resume(i) ==
    /\ Mongo /\ Alive
    /\ i \in 1..Len(handlers)
    /\ handlers[i].pc = "resume"
    /\ handlers' = Remove(handlers, i)
    /\ wire' = Emits(handlers[i])
    /\ last' = Step("resume", [handlers[i] EXCEPT !.pc = "done"])
    /\ UNCHANGED <<impl, conn, rooms, store, issued, nEvents, projects, projectStates,
                   commitLog>>

\* No handler catches: a throw inside an async handler (a malformed id, the
\* unbound createFromTime, a rejected store promise) is an unhandled promise
\* rejection. Node 15 and later end the process on it, earlier versions only
\* warn, and the repository pins neither: the process may exit right after
\* the rejection, which closes every connection and drops the suspended
\* handlers.
Crash ==
    /\ Mongo /\ Alive
    /\ last.step \in {"throw", "storeFail"}
    /\ last' = Step("crash", last.h)
    /\ conn' = [c \in Conns |-> "closed"]
    /\ rooms' = [k \in Ids |-> {}]
    /\ handlers' = <<>>
    /\ wire' = <<>>
    /\ UNCHANGED <<impl, store, issued, nEvents, projects, projectStates, commitLog>>

----------------------------------------------------------------------------
(* unnamed/part_000: the in-memory server; every handler runs to its end *)

\* app.post('/projects')
MemPostProject ==
    /\ Memory /\ Alive /\ nEvents < MaxEvents
    /\ projects' = Append(projects, [id |-> Len(projects) + 1, title |-> Title])
    /\ nEvents' = nEvents + 1
    /\ last' = Step("postProject", NoHandler)
    /\ wire' = <<>>
    /\ UNCHANGED <<impl, conn, rooms, store, issued, handlers, projectStates, commitLog>>

MemHandler(kind, c, key, data) ==
    [Handler(kind, c, key, data) EXCEPT !.pc = "done", !.result = [sync |-> TRUE]]

\* the projectId a client sends for the n-th entry of the project list
ProjectKey(n) == IF n = 1 THEN "p1" ELSE IF n = 2 THEN "p2" ELSE "pN"

\* !projectStates[projectId]
Falsy(st) == st = NoState

\* the state object joinProject leaves behind
MemJoinState(st) ==
    LET s1 == IF Falsy(st) THEN [annotations |-> <<>>] ELSE st IN
    IF ~Has(s1, "position") THEN MemSessionState ELSE s1

\* projectStates[projectId].annotations || []
AnnotationsOf(st) == IF Has(st, "annotations") THEN st.annotations ELSE <<>>

MemJoinProject(c, key) ==
    /\ Memory /\ CanReceive(c)
    /\ LET h == MemHandler("joinProject", c, key, [projectId |-> key])
           st == MemJoinState(projectStates[key])
       IN /\ rooms' = Join(rooms, c, key)
          /\ projectStates' = [projectStates EXCEPT ![key] = st]
          /\ wire' = <<[Msg("loadAnnotations",
                            [projectId |-> key, annotations |-> AnnotationsOf(st)],
                            SocketEmit(c), h) EXCEPT !.members = rooms'[key]],
                       [Msg("objectUpdated", SetField(st, "projectId", key),
                            SocketEmit(c), h) EXCEPT !.members = rooms'[key]]>>
          /\ last' = Step("memJoinProject", h)
    /\ nEvents' = nEvents + 1
    /\ UNCHANGED <<impl, conn, store, issued, handlers, projects, commitLog>>

\* Who the part_000 handler of `kind' emits to
MemRecipients(kind, c, key) ==
    IF kind = "deleteAnnotation" THEN IoTo(c, key) ELSE SocketTo(c, key)

\* The state object each part_000 handler leaves behind
MemApply(st, kind, data) ==
    LET s1 == IF Falsy(st) THEN [x \in {} |-> TRUE] ELSE st IN
    CASE kind = "updateObject" ->
           SetField(SetField(SetField(s1, "position", data.position),
                             "rotation", data.rotation), "scale", data.scale)
      [] kind = "addAnnotation" ->
           SetField(s1, "annotations", Append(AnnotationsOf(s1), data.annotation))
      [] kind = "deleteAnnotation" ->
           IF ~Falsy(st) /\ Has(st, "annotations")
           THEN SetField(st, "annotations", Filter(st.annotations, data.annotationId))
           ELSE st
      [] OTHER -> st

\* A synchronous part_000 handler: update projectStates, then emit
MemHandle(kind, c, key, data) ==
    LET h == MemHandler(kind, c, key, data) IN
    /\ projectStates' = [projectStates EXCEPT ![key] = MemApply(@, kind, data)]
    /\ wire' = <<Msg(EventOf(kind), Payload(h), MemRecipients(kind, c, key), h)>>
    /\ last' = Step("memHandle", h)
    /\ nEvents' = nEvents + 1
    /\ UNCHANGED <<impl, conn, rooms, store, issued, handlers, projects, commitLog>>

MemUpdateObject(c, key, t) ==
    /\ Memory /\ CanReceive(c)
    /\ MemHandle("updateObject", c, key, t)

MemUpdateCamera(c, key, cam) ==
    /\ Memory /\ CanReceive(c)
    /\ MemHandle("updateCamera", c, key, [camera |-> cam, socketId |-> c])

MemAddAnnotation(c, key, a) ==
    /\ Memory /\ CanReceive(c)
    /\ MemHandle("addAnnotation", c, key, [annotation |-> a])

MemDeleteAnnotation(c, key, aid) ==
    /\ Memory /\ CanReceive(c)
    /\ MemHandle("deleteAnnotation", c, key, [annotationId |-> aid])

MemSendMessage(c, key, m) ==
    /\ Memory /\ CanReceive(c)
    /\ MemHandle("sendMessage", c, key, [message |-> m])

----------------------------------------------------------------------------

Next ==
    \/ \E c \in Conns : Disconnect(c)
    \/ \E p \in ProjIds : CreateProject(p)
    \/ \E k \in Ids : DeleteProject(k)
    \/ \E c \in Conns, k \in Ids : JoinProject(c, k)
    \/ \E c \in Conns, k \in Ids, t \in Transforms : UpdateObject(c, k, t)
    \/ \E c \in Conns, k \in Ids, cam \in Cameras : UpdateCamera(c, k, cam)
    \/ \E c \in Conns, k \in Ids, col \in Colors : UpdateCubeColor(c, k, col)
    \/ \E c \in Conns, k \in Ids, a \in Annotations : AddAnnotation(c, k, a)
    \/ \E c \in Conns, k \in Ids, aid \in AnnotationIds : DeleteAnnotation(c, k, aid)
    \/ \E c \in Conns, k \in Ids, m \in Messages : SendMessage(c, k, m)
    \/ \E c \in Conns, k \in Ids, url \in FileUrls : ModelUploaded(c, k, url)
    \/ \E i \in 1..MaxEvents : StoreApply(i)
    \/ \E i \in 1..MaxEvents : StoreFail(i)
    \/ \E i \in 1..MaxEvents : Resume(i)
    \/ Crash
    \/ MemPostProject
    \/ \E c \in Conns, k \in Ids : MemJoinProject(c, k)
    \/ \E c \in Conns, k \in Ids, t \in Transforms : MemUpdateObject(c, k, t)
    \/ \E c \in Conns, k \in Ids, cam \in Cameras : MemUpdateCamera(c, k, cam)
    \/ \E c \in Conns, k \in Ids, a \in Annotations : MemAddAnnotation(c, k, a)
    \/ \E c \in Conns, k \in Ids, aid \in AnnotationIds : MemDeleteAnnotation(c, k, aid)
    \/ \E c \in Conns, k \in Ids, m \in Messages : MemSendMessage(c, k, m)

Spec == Init /\ [][Next]_vars

----------------------------------------------------------------------------
(* Observations used by the properties *)

\* the kind of the handler that took the last step, "none" for a transport
\* or HTTP step
LastKind == IF Has(last.h, "kind") THEN last.h.kind ELSE "none"

\* the last step ran a handler of kind k to the statement that emits
Emitted(k) == LastKind = k /\ last.step \in {"resume", "memHandle"}

\* the last step ended a handler of kind k, by its emit or by a throw
Ended(k) ==
    LastKind = k /\ last.step \in {"resume", "memHandle", "memJoinProject", "throw", "storeFail"}

----------------------------------------------------------------------------
(* C1: the objectUpdated / cameraUpdated broadcast of an updateObject /     *)
(* updateCamera event sent by S for project P is delivered to every         *)
(* connection that is in P's room when it is emitted, except S, and to      *)
(* nobody else; never to S.                                                 *)
C1_ExcludeSender ==
    \A k \in {"updateObject", "updateCamera"} :
        Emitted(k) =>
            /\ Len(wire) = 1
            /\ wire[1].event = EventOf(k)
            /\ wire[1].from = last.h.socket
            /\ wire[1].room = last.h.projectId
            /\ wire[1].to = wire[1].members \ {wire[1].from}
            /\ wire[1].from \notin wire[1].to

\* S and another connection are in the room: the other one gets the
\* objectUpdated of the store-backed server, S does not
C1_Witness ==
    /\ Mongo /\ Emitted("updateObject")
    /\ wire[1].from \in wire[1].members
    /\ wire[1].to # {}
    /\ wire[1].from \notin wire[1].to

(* C2: the cubeColorUpdated / annotationDeleted broadcast of an updateColor *)
(* / deleteAnnotation event sent by S for project P is delivered to every   *)
(* connection in P's room when it is emitted, S included when S is in it.   *)
C2_IncludeSender ==
    \A k \in {"updateCubeColor", "deleteAnnotation"} :
        Emitted(k) =>
            /\ Len(wire) = 1
            /\ wire[1].event = EventOf(k)
            /\ wire[1].from = last.h.socket
            /\ wire[1].room = last.h.projectId
            /\ wire[1].to = wire[1].members
            /\ (wire[1].from \in wire[1].members => wire[1].from \in wire[1].to)

\* S is in the room with another connection and both get cubeColorUpdated
C2_Witness ==
    /\ Mongo /\ Emitted("updateCubeColor")
    /\ wire[1].from \in wire[1].to
    /\ wire[1].to # {wire[1].from}

(* C3: the annotationAdded / receiveMessage broadcast of an addAnnotation / *)
(* sendMessage event sent by S is delivered to the whole room of P, S       *)
(* included, in the store-backed server and in the in-memory server alike.  *)
C3_IncludeSenderEverywhere ==
    \A k \in {"addAnnotation", "sendMessage"} :
        Emitted(k) =>
            /\ Len(wire) = 1
            /\ wire[1].event = EventOf(k)
            /\ wire[1].to = wire[1].members

(* C4: every modelUploaded(P, m) on an existing project P leaves the        *)
(* persisted state with model = m, object = the reset object with the       *)
(* default colour and annotations = [], and modelLoaded(P, m) goes to the   *)
(* whole room of P, the sender included.                                    *)
C4_ModelSwap ==
    (/\ Mongo /\ Ended("modelUploaded")
     /\ last.h.projectId \in ProjIds
     /\ store[last.h.projectId] # NoDoc)
    => LET st == store[last.h.projectId].state IN
       /\ Has(st, "model") /\ st.model = last.h.data.fileUrl
       /\ st.object = ModelObject
       /\ st.annotations = <<>>
       /\ Len(wire) = 1
       /\ wire[1].event = "modelLoaded"
       /\ wire[1].to = wire[1].members

\* the writes to state.object among the writes of a commit log
ObjectWrites(log) ==
    SelectSeq(log, LAMBDA h : h.kind \in {"updateObject", "updateCubeColor", "modelUploaded"})

LastOf(s) == s[Len(s)]

(* C5: when the store serves the read of a join(P) and the last write to    *)
(* state.object it applied before is an updateObject(P, T), the loadProject *)
(* snapshot the join emits goes to the joining connection alone and its     *)
(* object equals T.                                                         *)
C5_JoinSeesObject ==
    (Mongo /\ Emitted("joinProject") /\ last.h.result # NoDoc) =>
        LET w == ObjectWrites(SubSeq(commitLog[last.h.projectId], 1, last.h.seen)) IN
        /\ Len(wire) = 1
        /\ wire[1].event = "loadProject"
        /\ wire[1].to = {c \in {last.h.socket} : conn[c] = "open"}
        /\ (w # <<>> /\ LastOf(w).kind = "updateObject")
               => wire[1].payload.object = LastOf(w).data

\* a connection receives a snapshot that holds the transform another
\* connection wrote
C5_Witness ==
    /\ Mongo /\ Emitted("joinProject") /\ last.h.result # NoDoc
    /\ wire[1].to = {last.h.socket}
    /\ LET w == ObjectWrites(SubSeq(commitLog[last.h.projectId], 1, last.h.seen)) IN
       /\ w # <<>> /\ LastOf(w).kind = "updateObject"
       /\ LastOf(w).socket # last.h.socket
       /\ wire[1].payload.object = LastOf(w).data
       /\ wire[1].payload.object # DefaultObject

\* the annotations of project `key' as the running server holds them
AnnotationsAt(key) ==
    IF Mongo THEN store[key].state.annotations ELSE AnnotationsOf(projectStates[key])

\* the server holds state for `key'
Held(key) ==
    IF Mongo THEN key \in ProjIds /\ store[key] # NoDoc ELSE projectStates[key] # NoState

\* this step applies the deleteAnnotation of handler h to held state
DeleteApplied(h) ==
    /\ Has(h, "kind") /\ h.kind = "deleteAnnotation"
    /\ last' = Step(IF Mongo THEN "storeApply" ELSE "memHandle", h)
    /\ Held(h.projectId)

(* C6: a deleteAnnotation(P, id) applied to annotations = [a] with          *)
(* a.id = id, the state addAnnotation(P, a) leaves on an empty list, gives  *)
(* annotations = []; applied to a list that holds no annotation with that   *)
(* id it leaves the list as it was, and the handler goes on to its emit as  *)
(* for a matching id (no error).                                            *)
C6_AddDeleteRoundTrip ==
    [][\A h \in {last'.h} :
          DeleteApplied(h) =>
              LET before == AnnotationsAt(h.projectId)
                  after == AnnotationsAt(h.projectId)'
                  aid == h.data.annotationId
              IN /\ Held(h.projectId)'
                 /\ (Len(before) = 1 /\ before[1].id = aid) => after = <<>>
                 /\ (\A i \in 1..Len(before) : before[i].id # aid) =>
                        /\ after = before
                        /\ Mongo => h.pc = "resume" /\ h.result = Matched(1)
                 /\ \A i \in 1..Len(after) : after[i].id # aid
      ]_vars

\* addAnnotation(p, a) then deleteAnnotation(p, a.id) were applied to an
\* empty list, in this order, and the list is empty again
C6_Witness ==
    /\ Mongo /\ LastKind = "deleteAnnotation" /\ last.step = "storeApply"
    /\ LET log == commitLog[last.h.projectId] IN
       /\ Len(log) = 2
       /\ log[1].kind = "addAnnotation"
       /\ log[2].id = last.h.id
       /\ log[1].data.annotation.id = last.h.data.annotationId
    /\ store[last.h.projectId].state.annotations = <<>>

(* C7: whenever the last write to state.object the store applied for P is   *)
(* an updateObject(P, T), the persisted object is T, whatever the order in  *)
(* which the events arrived.                                                *)
C7_LastWriterWins ==
    \A p \in ProjIds :
        (Mongo /\ store[p] # NoDoc) =>
            LET w == ObjectWrites(commitLog[p]) IN
            (w # <<>> /\ LastOf(w).kind = "updateObject")
                => store[p].state.object = LastOf(w).data

\* A's event arrived first, B's write was applied first, A's last: A's
\* transform is the persisted one
C7_Witness ==
    \E p \in ProjIds :
        /\ Mongo /\ store[p] # NoDoc
        /\ Len(commitLog[p]) = 2
        /\ commitLog[p][1].kind = "updateObject" /\ commitLog[p][2].kind = "updateObject"
        /\ commitLog[p][1].id > commitLog[p][2].id
        /\ commitLog[p][1].socket # commitLog[p][2].socket
        /\ commitLog[p][1].data # commitLog[p][2].data
        /\ store[p].state.object = commitLog[p][2].data

\* the elements a commit log appended with handlers of kind k
Appended(log, k, field) ==
    LET hs == SelectSeq(log, LAMBDA h : h.kind = k) IN
    [i \in 1..Len(hs) |-> hs[i].data[field]]

Removals(log) ==
    SelectSeq(log, LAMBDA h : h.kind \in {"deleteAnnotation", "modelUploaded"})

(* C8: the persisted chat of P is exactly the messages of the sendMessage   *)
(* writes the store applied for P, in the order it applied them; and as     *)
(* long as nothing was removed, the persisted annotations are exactly the   *)
(* annotations of the applied addAnnotation writes, in that order.          *)
C8_AppendsNotLost ==
    \A p \in ProjIds :
        (Mongo /\ store[p] # NoDoc) =>
            /\ store[p].state.chat = Appended(commitLog[p], "sendMessage", "message")
            /\ Removals(commitLog[p]) = <<>> =>
                  store[p].state.annotations =
                      Appended(commitLog[p], "addAnnotation", "annotation")

\* two concurrent addAnnotation events, applied against their arrival
\* order, both handlers done: both annotations persist, in applied order
C8_Witness ==
    \E p \in ProjIds :
        /\ Mongo /\ store[p] # NoDoc /\ handlers = <<>>
        /\ Len(commitLog[p]) = 2
        /\ commitLog[p][1].kind = "addAnnotation" /\ commitLog[p][2].kind = "addAnnotation"
        /\ commitLog[p][1].id > commitLog[p][2].id
        /\ commitLog[p][1].data # commitLog[p][2].data
        /\ store[p].state.annotations =
               <<commitLog[p][1].data.annotation, commitLog[p][2].data.annotation>>

\* part_000: the project list has an entry for `key'
MemResolves(key) == \E i \in 1..Len(projects) : ProjectKey(projects[i].id) = key

\* the last step ended a join whose projectId resolves to no project
JoinUnresolved ==
    /\ LastKind = "joinProject"
    /\ \/ Mongo /\ last.step = "throw"
       \/ Mongo /\ last.step = "resume" /\ last.h.result = NoDoc
       \/ Memory /\ last.step = "memJoinProject" /\ ~MemResolves(last.h.projectId)

C10_BroadcastAfterCommit ==
    /\ (Mongo /\ LastKind \in MutationKinds /\ last.step = "resume" /\ wire # <<>>) =>
           \E i \in 1..Len(commitLog[last.h.projectId]) :
               commitLog[last.h.projectId][i].id = last.h.id
    /\ (Mongo /\ LastKind \in MutationKinds /\ last.step = "storeFail") => wire = <<>>


(* C11: a mutation event whose projectId resolves to no existing project,   *)
(* a project deleted while connections are still in its room included,      *)
(* writes nothing to the store and broadcasts nothing.                      *)
C11_UnresolvedMutationSilent ==
    (/\ Mongo /\ LastKind \in MutationKinds
     /\ \/ last.step = "throw"
        \/ last.step = "resume" /\ last.h.result = Matched(0))
    => /\ wire = <<>>
       /\ \A p \in ProjIds : \A i \in 1..Len(commitLog[p]) : commitLog[p][i].id # last.h.id


\* the payload of handler h has every field its event requires
WellFormed(h) ==
    CASE h.kind = "updateObject" ->
           Has(h.data, "position") /\ Has(h.data, "rotation") /\ Has(h.data, "scale")
      [] h.kind = "updateCamera" -> Has(h.data, "camera")
      [] h.kind = "updateCubeColor" -> Has(h.data, "color")
      [] h.kind = "addAnnotation" -> Has(h.data.annotation, "id")
      [] h.kind = "deleteAnnotation" -> Has(h.data, "annotationId")
      [] h.kind = "sendMessage" ->
           Has(h.data.message, "user") /\ Has(h.data.message, "text")
      [] h.kind = "modelUploaded" -> Has(h.data, "fileUrl")
      [] OTHER -> TRUE

(* C12: a mutation event whose payload lacks a required field is rejected   *)
(* before any store write and emits nothing.                                *)
C12_MalformedRejected ==
    (Mongo /\ LastKind \in MutationKinds /\ ~WellFormed(last.h)) =>
        /\ last.step \notin {"begin", "storeApply", "resume"}
        /\ wire = <<>>
        /\ \A p \in ProjIds : \A i \in 1..Len(commitLog[p]) : commitLog[p][i].id # last.h.id


\* this step ran the synchronous part of a joinProject handler
JoinStep ==
    /\ Has(last'.h, "kind") /\ last'.h.kind = "joinProject"
    /\ last'.step \in {"begin", "throw", "memJoinProject"}

\* this step ran a mutation handler to its emit
BroadcastStep ==
    /\ Has(last'.h, "kind") /\ last'.h.kind \in MutationKinds
    /\ last'.step \in {"resume", "memHandle"}

(* C13: a join of P by a connection puts it in P's room and changes no      *)
(* other membership; a join by a connection that is in the room already     *)
(* leaves all rooms as they were; and a mutation handler emits one message, *)
(* so a member gets each broadcast once.                                    *)
C13_JoinIdempotent ==
    [][/\ JoinStep =>
            LET c == last'.h.socket
                k == last'.h.projectId
            IN /\ c \in rooms'[k]
               /\ rooms'[k] = rooms[k] \cup {c}
               /\ \A k2 \in Ids \ {k} : rooms'[k2] = rooms[k2]
               /\ c \in rooms[k] => rooms' = rooms
       /\ BroadcastStep => Len(wire') = 1
      ]_vars

\* one connection has sent two joins for the same project; it is in the room
C13_Witness ==
    /\ Mongo /\ Len(handlers) = 2
    /\ handlers[1].kind = "joinProject" /\ handlers[2].kind = "joinProject"
    /\ handlers[1].socket = handlers[2].socket
    /\ handlers[1].projectId = handlers[2].projectId
    /\ rooms[handlers[1].projectId] = {handlers[1].socket}


(* C14: no step but its own disconnect takes a connection out of a room it  *)
(* has joined, a join of another project included; and every broadcast for  *)
(* a project reaches every connection in that project's room except,        *)
(* at most, its sender.                                                     *)
C14_RoomsAccumulate ==
    [][/\ \A c \in Conns, k \in Ids :
              (c \in rooms[k] /\ conn'[c] = "open") => c \in rooms'[k]
       /\ BroadcastStep =>
              \A i \in 1..Len(wire') :
                  /\ wire'[i].members = rooms'[wire'[i].room]
                  /\ (wire'[i].members \ {wire'[i].from}) \subseteq wire'[i].to
      ]_vars

\* a connection that joined p1 and then p2 is in both rooms and receives
\* another connection's broadcast for p2
C14_Witness ==
    \E c \in Conns :
        /\ Mongo /\ LastKind \in MutationKinds /\ last.step = "resume"
        /\ c \in rooms["p1"] /\ c \in rooms["p2"]
        /\ wire[1].room = "p2"
        /\ wire[1].from # c
        /\ c \in wire[1].to


(* C15: an event for project P leaves the persisted state of every other   *)
(* project as it was and delivers nothing to a connection outside P's room, *)
(* and no event, failing or not, stops the server from processing later     *)
(* events.                                                                  *)
C15_FailureIsolated ==
    [][/\ Has(last'.h, "kind") =>
              \A q \in Ids \ {last'.h.projectId} :
                  /\ q \in ProjIds => store'[q] = store[q]
                  /\ projectStates'[q] = projectStates[q]
       /\ \A i \in 1..Len(wire') : wire'[i].to \subseteq rooms'[wire'[i].room]
       /\ Alive'
      ]_vars


\* the handler of `last', suspended at its await, has a closed socket
SenderGone(h) == Has(h, "kind") /\ h.kind \in MutationKinds /\ conn[h.socket] = "closed"

(* C16: a disconnect cancels nothing. It leaves every suspended handler    *)
(* where it is; the write of a handler whose connection has closed is      *)
(* still applied to the project, and its broadcast still goes to every     *)
(* connection left in the room.                                            *)
C16_DisconnectDoesNotCancel ==
    [][/\ last'.step = "disconnect" => handlers' = handlers
       /\ (last'.step = "storeApply" /\ SenderGone(last'.h)
              /\ store[last'.h.projectId] # NoDoc) =>
             /\ Len(commitLog'[last'.h.projectId]) = Len(commitLog[last'.h.projectId]) + 1
             /\ LastOf(commitLog'[last'.h.projectId]).id = last'.h.id
             /\ store'[last'.h.projectId] =
                    ApplyUpdate(store[last'.h.projectId], last'.h.kind, last'.h.data)
       /\ (last'.step = "resume" /\ SenderGone(last'.h)) =>
             /\ Len(wire') = 1
             /\ wire'[1].to = rooms'[last'.h.projectId]
      ]_vars

C16_Witness ==
    /\ last.step = "resume" /\ SenderGone(last.h)
    /\ last.h.result = Matched(1)
    /\ \E i \in 1..Len(commitLog[last.h.projectId]) :
           commitLog[last.h.projectId][i].id = last.h.id
    /\ Len(wire) = 1 /\ wire[1].to # {}


\* the updateCubeColor writes among the first n applied writes of a project
ColorWrites(log, n) == SelectSeq(SubSeq(log, 1, n), LAMBDA h : h.kind = "updateCubeColor")

\* the object still carries the colour of the last updateCubeColor of `w'
KeepsColor(object, w) ==
    w # <<>> => Has(object, "color") /\ object.color = LastOf(w).data.color

(* C17: once an updateCubeColor(P, c) has been applied, the persisted      *)
(* object of P carries colour c whatever updateObject events follow, and   *)
(* so does the snapshot of a join(P) that the store served after it.       *)
C17_TransformKeepsColor ==
    Mongo =>
        /\ \A p \in ProjIds :
               store[p] # NoDoc =>
                   KeepsColor(store[p].state.object, ColorWrites(commitLog[p], Len(commitLog[p])))
        /\ (Emitted("joinProject") /\ last.h.result # NoDoc) =>
               KeepsColor(wire[1].payload.object,
                          ColorWrites(commitLog[last.h.projectId], last.h.seen))


\* the place of handler h's write among the applied writes of its project
IndexOf(h) ==
    CHOOSE i \in 1..Len(commitLog[h.projectId]) : commitLog[h.projectId][i].id = h.id

\* a join of connection c to project p that has read the store after `n' writes
\* at most and has not sent its snapshot yet
JoinBehind(c, p, n) ==
    \E i \in 1..Len(handlers) :
        /\ handlers[i].kind = "joinProject" /\ handlers[i].pc = "resume"
        /\ handlers[i].socket = c /\ handlers[i].projectId = p
        /\ handlers[i].result # NoDoc
        /\ handlers[i].seen < n

\* handler h has written to the store and has its broadcast still to send
EmitPending(h) ==
    \E i \in 1..Len(handlers) : handlers[i].id = h.id /\ handlers[i].pc = "resume"

(* C18: a connection J joining P misses no write of another connection.   *)
(* When the broadcast of a write is sent while a join of J is waiting     *)
(* with a snapshot read before the write, J is among the recipients; when *)
(* the snapshot of J is sent, it holds every write applied before its     *)
(* read, and every later write has its broadcast still to come with J in  *)
(* the room, or has been broadcast already under the first case.          *)
C18_JoinMissesNothing ==
    /\ (Mongo /\ last.step = "resume" /\ LastKind \in MutationKinds
          /\ last.h.result = Matched(1)) =>
           \A c \in Conns \ {last.h.socket} :
               (conn[c] = "open" /\ JoinBehind(c, last.h.projectId, IndexOf(last.h)))
                   => c \in wire[1].to
    /\ (Mongo /\ Emitted("joinProject") /\ last.h.result # NoDoc
          /\ conn[last.h.socket] = "open") =>
           LET log == commitLog[last.h.projectId] IN
           /\ wire[1].to = {last.h.socket}
           /\ store[last.h.projectId] # NoDoc /\ last.h.seen = Len(log)
                  => wire[1].payload = store[last.h.projectId].state
           /\ \A i \in (last.h.seen + 1)..Len(log) :
                  EmitPending(log[i]) => last.h.socket \in rooms[last.h.projectId]

\* the broadcast of a write reaches a connection whose join has read the
\* store before the write and has not answered yet
C18_Witness ==
    /\ Mongo /\ last.step = "resume" /\ LastKind = "updateObject"
    /\ last.h.result = Matched(1)
    /\ \E c \in Conns \ {last.h.socket} :
           /\ conn[c] = "open"
           /\ JoinBehind(c, last.h.projectId, IndexOf(last.h))
           /\ c \in wire[1].to


(* C19: a snapshot never goes back in time. When the broadcast of a write  *)
(* to P has just been delivered to connection J and the next step sends J  *)
(* the snapshot of its join(P), the snapshot was read after that write.    *)
C19_SnapshotNotStale ==
    [][(/\ Mongo /\ last.step = "resume" /\ LastKind \in MutationKinds
        /\ last.h.result = Matched(1)
        /\ last'.step = "resume" /\ last'.h.kind = "joinProject"
        /\ last'.h.projectId = last.h.projectId
        /\ last'.h.result # NoDoc
        /\ Len(wire') = 1
        /\ last'.h.socket \in wire[1].to
        /\ last'.h.socket \in wire'[1].to)
       => last'.h.seen >= IndexOf(last.h)
      ]_vars


\* position, rotation and scale of an object record
TransformOf(object) ==
    [position |-> object.position, rotation |-> object.rotation, scale |-> object.scale]

(* C20: there is one default transform. The object of a project that no   *)
(* event has written yet, as project creation stored it, has the transform *)
(* that modelUploaded resets the object to.                                *)
C20_OneDefaultTransform ==
    Mongo =>
        \A p \in ProjIds :
            (store[p] # NoDoc /\ ObjectWrites(commitLog[p]) = <<>>)
                => TransformOf(store[p].state.object) = TransformOf(ModelObject)

====
